---- MODULE Spec2Model ----
(***************************************************************************)
(* Initialization coordination and readiness gating of entry/main.py:      *)
(* the startup hook and its background thread init_models_thread, the      *)
(* module globals MODELS_LOADED / initialized / initialization_error, the  *)
(* re-entrant lock model_init_lock, the /health and /ready handlers and    *)
(* the check_initialization middleware.                                    *)
(*                                                                         *)
(* Two kinds of thread take steps: the background threads started by       *)
(* startup_event, and the single event-loop thread that runs every         *)
(* coroutine (middleware and handlers).  A coroutine keeps the event-loop  *)
(* thread until it awaits or returns; the background threads interleave    *)
(* with it at every statement.                                             *)
(***************************************************************************)
EXTENDS Integers, Sequences, FiniteSets, TLC

\* Bounds of the model.
MaxStarts == 2
MaxRequests == 2

Workers == 1..MaxStarts
Requests == 1..MaxRequests

VARIABLES
    MODELS_LOADED,          \* main.py:20
    initialized,            \* main.py:21
    initialization_error,   \* main.py:22, None or a string
    model_init_lock,        \* main.py:25, the owner of the RLock
    registry,               \* sizes of get_models(), get_pipelines(), get_voices()
    environ,                \* CONTAINER_ENV, K_SERVICE and the model directory
    started,                \* number of startup_event invocations so far
    wpc,                    \* position of each init_models_thread
    wexc,                   \* the exception each thread is handling (str(e))
    force_online,           \* the thread's local force_online
    running,                \* the request whose coroutine holds the event loop, 0 if none
    rpath,                  \* path of each request
    rpc,                    \* position of each request
    rresp,                  \* response of each request
    robs                    \* phases at the instants the request consulted the state

vars == <<MODELS_LOADED, initialized, initialization_error, model_init_lock,
          registry, environ, started, wpc, wexc, force_online,
          running, rpath, rpc, rresp, robs>>

shared == <<MODELS_LOADED, initialized, initialization_error>>
workerVars == <<started, wpc, wexc, force_online>>
requestVars == <<running, rpath, rpc, rresp, robs>>

-----------------------------------------------------------------------------
\* Python values.

\* An Optional[str]: None is the empty tuple, a string s is <<s>>.
None == <<>>
Some(s) == <<s>>

\* Python truthiness of an Optional[str]: None and "" are falsy.
Truthy(e) == e # None /\ e[1] # ""

\* str(bool) as an f-string renders it.
PyBool(b) == IF b THEN "True" ELSE "False"

\* str.lower() on the values the environment variables take here.
Lower(s) ==
    CASE s = "TRUE" -> "true"
      [] s = "True" -> "true"
      [] OTHER -> s

-----------------------------------------------------------------------------
\* The lock.

Free == <<>>
HeldByWorker(w) == <<"worker", w>>
HeldByLoop == <<"loop">>

-----------------------------------------------------------------------------
\* The phase of the initialization, as the three globals and the thread
\* start encode it.

Phase ==
    IF initialization_error # None THEN "Failed"
    ELSE IF initialized THEN "Ready"
    ELSE IF started > 0 THEN "Loading"
    ELSE "Uninitialized"

-----------------------------------------------------------------------------
\* Inputs.

ContainerEnvValues == {"", "true", "True", "TRUE", "false", "1"}
ServiceValues == {"", "kokoro-tts"}

Environments ==
    [CONTAINER_ENV : ContainerEnvValues, K_SERVICE : ServiceValues, model_dir : BOOLEAN]

\* The environments of the two deployments: a developer's machine and a
\* freshly provisioned container, neither with a local model directory.
DeployedEnvironments ==
    {[CONTAINER_ENV |-> "", K_SERVICE |-> "", model_dir |-> FALSE],
     [CONTAINER_ENV |-> "True", K_SERVICE |-> "kokoro-tts", model_dir |-> FALSE]}

\* A message of 201 characters, one more than the gate lets through.
LongMessage ==
    "Unable to load checkpoint: 012345678901234567890123456789012345678901234567890123456789012345678901234567890123456789012345678901234567890123456789012345678901234567890123456789012345678901234567890123"

\* A message of exactly 200 characters.
ExactMessage ==
    "Unable to open voice pack: abcdefghijabcdefghijabcdefghijabcdefghijabcdefghijabcdefghijabcdefghijabcdefghijabcdefghijabcdefghijabcdefghijabcdefghijabcdefghijabcdefghijabcdefghijabcdefghijabcdefghijabc"

\* A message of the PyTorch 2.6 incompatibility (main.py:146-147), 220
\* characters long with the marker after the 200th.
WeightsOnlyMessage ==
    "torch.load failed: 987654321098765432109876543210987654321098765432109876543210987654321098765432109876543210987654321098765432109876543210987654321098765432109876543210987654321098765432109876543210987654 (weights_only)"

\* A short message of the same incompatibility.
ShortWeightsOnlyMessage == "Unsupported global: weights_only=True"

\* Messages of the exceptions initialize_models raises.
LoaderMessages ==
    {"", "CUDA out of memory", ExactMessage, LongMessage,
     WeightsOnlyMessage, ShortWeightsOnlyMessage}

\* Sizes of the three collections after initialize_models returns.
Sizes == {0, 1}
Registries == [models : Sizes, pipelines : Sizes, voices : Sizes]
EmptyRegistry == [models |-> 0, pipelines |-> 0, voices |-> 0]

DocPaths == {"/docs", "/openapi.json", "/redoc"}
Paths == {"/health", "/ready", "/", "/tts"} \cup DocPaths
ExemptPaths == {"/health", "/ready", "/docs", "/openapi.json", "/redoc"}

NoResponse == [code |-> 0, status |-> "", detail |-> ""]
Response(c, s, d) == [code |-> c, status |-> s, detail |-> d]

-----------------------------------------------------------------------------
Init ==
    /\ MODELS_LOADED = FALSE
    /\ initialized = FALSE
    /\ initialization_error = None
    /\ model_init_lock = Free
    /\ registry = EmptyRegistry
    /\ environ \in DeployedEnvironments
    /\ started = 0
    /\ wpc = [w \in Workers |-> "unstarted"]
    /\ wexc = [w \in Workers |-> ""]
    /\ force_online = [w \in Workers |-> FALSE]
    /\ running = 0
    /\ rpath = [r \in Requests |-> ""]
    /\ rpc = [r \in Requests |-> "idle"]
    /\ rresp = [r \in Requests |-> NoResponse]
    /\ robs = [r \in Requests |-> <<>>]

-----------------------------------------------------------------------------
\* startup_event (main.py:48-99): every invocation defines init_models_thread
\* and starts a new daemon thread running it.  Nothing is read or tested
\* before the thread is started.

startup_event ==
    /\ started < MaxStarts
    /\ started' = started + 1
    /\ wpc' = [wpc EXCEPT ![started + 1] = "acquire"]
    /\ UNCHANGED <<shared, model_init_lock, registry, environ, wexc, force_online,
                   requestVars>>

\* The state after construction in any environment.
InitAnyEnvironment ==
    /\ MODELS_LOADED = FALSE
    /\ initialized = FALSE
    /\ initialization_error = None
    /\ model_init_lock = Free
    /\ registry = EmptyRegistry
    /\ environ \in Environments
    /\ started = 0
    /\ wpc = [w \in Workers |-> "unstarted"]
    /\ wexc = [w \in Workers |-> ""]
    /\ force_online = [w \in Workers |-> FALSE]
    /\ running = 0
    /\ rpath = [r \in Requests |-> ""]
    /\ rpc = [r \in Requests |-> "idle"]
    /\ rresp = [r \in Requests |-> NoResponse]
    /\ robs = [r \in Requests |-> <<>>]

\* The server's lifespan protocol runs the startup hooks once per process.
LifespanStartup ==
    /\ started = 0
    /\ startup_event

-----------------------------------------------------------------------------
\* init_models_thread (main.py:57-94).

\* main.py:61  with model_init_lock:
WorkerAcquire(w) ==
    /\ wpc[w] = "acquire"
    /\ model_init_lock = Free
    /\ model_init_lock' = HeldByWorker(w)
    /\ wpc' = [wpc EXCEPT ![w] = "detect"]
    /\ UNCHANGED <<shared, registry, environ, started, wexc, force_online, requestVars>>

\* A variant of Detect that compares CONTAINER_ENV without lower().
Detect_CaseSensitive(env) ==
    IF env.CONTAINER_ENV = "true" \/ Lower(env.K_SERVICE) # ""
    THEN ~env.model_dir
    ELSE FALSE

\* main.py:63-68
Detect(env) ==
    IF Lower(env.CONTAINER_ENV) = "true" \/ Lower(env.K_SERVICE) # ""
    THEN ~env.model_dir
    ELSE FALSE

WorkerDetect(w) ==
    /\ wpc[w] = "detect"
    /\ force_online' = [force_online EXCEPT ![w] = Detect(environ)]
    /\ wpc' = [wpc EXCEPT ![w] = "load"]
    /\ UNCHANGED <<shared, model_init_lock, registry, environ, started, wexc, requestVars>>

\* main.py:72  initialize_models(force_online=force_online) returns, having
\* filled the registry.  The thread is inside the call while wpc[w] = "load".
LoadReturn(w) ==
    /\ wpc[w] = "load"
    /\ \E reg \in Registries : registry' = reg
    /\ wpc' = [wpc EXCEPT ![w] = "validate"]
    /\ UNCHANGED <<shared, model_init_lock, environ, started, wexc, force_online,
                   requestVars>>

\* A variant of LoadRaise in which the exception does not release the lock.
LoadRaise_KeepsLock(w) ==
    /\ wpc[w] = "load"
    /\ \E m \in LoaderMessages : wexc' = [wexc EXCEPT ![w] = m]
    /\ wpc' = [wpc EXCEPT ![w] = "except"]
    /\ UNCHANGED <<shared, model_init_lock, registry, environ, started, force_online,
                   requestVars>>

\* A variant of LoadRaise whose except clause swallows the exception.
LoadRaise_Swallowed(w) ==
    /\ wpc[w] = "load"
    /\ model_init_lock' = Free
    /\ wpc' = [wpc EXCEPT ![w] = "done_failed"]
    /\ UNCHANGED <<shared, registry, environ, started, wexc, force_online, requestVars>>

\* main.py:72, 88  initialize_models raises; the exception leaves the with
\* block, which releases the lock, and reaches the except clause.
LoadRaise(w) ==
    /\ wpc[w] = "load"
    /\ \E m \in LoaderMessages : wexc' = [wexc EXCEPT ![w] = m]
    /\ model_init_lock' = Free
    /\ wpc' = [wpc EXCEPT ![w] = "except"]
    /\ UNCHANGED <<shared, registry, environ, started, force_online, requestVars>>

\* len() as an f-string renders it, for the sizes of the model.
PyLen(n) == IF n = 0 THEN "0" ELSE "1"

\* A variant of ValidationMessage that reports the sizes, as the log lines do.
ValidationMessage_Sizes(reg) ==
    "Critical components missing after initialization: models="
        \o PyLen(reg.models)
        \o ", pipelines=" \o PyLen(reg.pipelines)
        \o ", voices=" \o PyLen(reg.voices)

\* main.py:82  the message of the RuntimeError
ValidationMessage(reg) ==
    "Critical components missing after initialization: models="
        \o PyBool(reg.models > 0)
        \o ", pipelines=" \o PyBool(reg.pipelines > 0)
        \o ", voices=" \o PyBool(reg.voices > 0)

\* A variant of WorkerValidate that publishes the flag before validating.
WorkerValidate_FlagFirst(w) ==
    /\ wpc[w] = "validate"
    /\ initialized' = TRUE
    /\ IF registry.models = 0 \/ registry.pipelines = 0 \/ registry.voices = 0
       THEN /\ wexc' = [wexc EXCEPT ![w] = ValidationMessage(registry)]
            /\ model_init_lock' = Free
            /\ wpc' = [wpc EXCEPT ![w] = "except"]
       ELSE /\ wpc' = [wpc EXCEPT ![w] = "set_loaded"]
            /\ UNCHANGED <<wexc, model_init_lock>>
    /\ UNCHANGED <<MODELS_LOADED, initialization_error, registry, environ, started,
                   force_online, requestVars>>

\* main.py:76-84
WorkerValidate(w) ==
    /\ wpc[w] = "validate"
    /\ IF registry.models = 0 \/ registry.pipelines = 0 \/ registry.voices = 0
       THEN /\ wexc' = [wexc EXCEPT ![w] = ValidationMessage(registry)]
            /\ model_init_lock' = Free
            /\ wpc' = [wpc EXCEPT ![w] = "except"]
       ELSE /\ wpc' = [wpc EXCEPT ![w] = "set_loaded"]
            /\ UNCHANGED <<wexc, model_init_lock>>
    /\ UNCHANGED <<shared, registry, environ, started, force_online, requestVars>>

\* main.py:85
WorkerSetLoaded(w) ==
    /\ wpc[w] = "set_loaded"
    /\ MODELS_LOADED' = TRUE
    /\ wpc' = [wpc EXCEPT ![w] = "set_initialized"]
    /\ UNCHANGED <<initialized, initialization_error, model_init_lock, registry, environ,
                   started, wexc, force_online, requestVars>>

\* main.py:86
WorkerSetInitialized(w) ==
    /\ wpc[w] = "set_initialized"
    /\ initialized' = TRUE
    /\ wpc' = [wpc EXCEPT ![w] = "clear_error"]
    /\ UNCHANGED <<MODELS_LOADED, initialization_error, model_init_lock, registry, environ,
                   started, wexc, force_online, requestVars>>

\* main.py:87 and the end of the with block
WorkerClearError(w) ==
    /\ wpc[w] = "clear_error"
    /\ initialization_error' = None
    /\ model_init_lock' = Free
    /\ wpc' = [wpc EXCEPT ![w] = "done_ok"]
    /\ UNCHANGED <<MODELS_LOADED, initialized, registry, environ,
                   started, wexc, force_online, requestVars>>

\* A variant of WorkerWriteError that stores None for an empty message.
WorkerWriteError_DropsEmpty(w) ==
    /\ wpc[w] = "except"
    /\ initialization_error' = IF wexc[w] = "" THEN None ELSE Some(wexc[w])
    /\ wpc' = [wpc EXCEPT ![w] = "reset_flags"]
    /\ UNCHANGED <<MODELS_LOADED, initialized, model_init_lock, registry, environ,
                   started, wexc, force_online, requestVars>>

\* main.py:92
WorkerWriteError(w) ==
    /\ wpc[w] = "except"
    /\ initialization_error' = Some(wexc[w])
    /\ wpc' = [wpc EXCEPT ![w] = "reset_flags"]
    /\ UNCHANGED <<MODELS_LOADED, initialized, model_init_lock, registry, environ,
                   started, wexc, force_online, requestVars>>

\* main.py:93-94, and the end of the except clause, which unbinds e
WorkerResetFlags(w) ==
    /\ wpc[w] = "reset_flags"
    /\ MODELS_LOADED' = FALSE
    /\ initialized' = FALSE
    /\ wexc' = [wexc EXCEPT ![w] = ""]
    /\ wpc' = [wpc EXCEPT ![w] = "done_failed"]
    /\ UNCHANGED <<initialization_error, model_init_lock, registry, environ,
                   started, force_online, requestVars>>

Worker(w) ==
    \/ WorkerAcquire(w)
    \/ WorkerDetect(w)
    \/ LoadReturn(w)
    \/ LoadRaise(w)
    \/ WorkerValidate(w)
    \/ WorkerSetLoaded(w)
    \/ WorkerSetInitialized(w)
    \/ WorkerClearError(w)
    \/ WorkerWriteError(w)
    \/ WorkerResetFlags(w)

-----------------------------------------------------------------------------
\* check_initialization (main.py:133-189), on the event-loop thread.

\* main.py:151-152
TruncateLimit == 200
TruncateKeep == 197

\* main.py:148
CompatibilityGuidance ==
    "PyTorch 2.6 compatibility issue with model loading. The model was created with an older PyTorch version. Please restart the application to retry with fallback loading options."

\* sub in s (main.py:146)
Contains(s, sub) ==
    \E i \in 1..(Len(s) - Len(sub) + 1) : SubSeq(s, i, i + Len(sub) - 1) = sub

\* A variant of FormatError that keeps TruncateLimit characters before the
\* ellipsis.
FormatError_KeepsLimit(msg) ==
    LET translated == IF Contains(msg, "weights_only") THEN CompatibilityGuidance ELSE msg
    IN  IF Len(translated) > TruncateLimit
        THEN SubSeq(translated, 1, TruncateLimit) \o "..."
        ELSE translated

\* A variant of FormatError that truncates before it looks for the marker.
FormatError_TruncatesFirst(msg) ==
    LET truncated == IF Len(msg) > TruncateLimit
                     THEN SubSeq(msg, 1, TruncateKeep) \o "..."
                     ELSE msg
    IN  IF Contains(truncated, "weights_only") THEN CompatibilityGuidance ELSE truncated

\* main.py:145-152
FormatError(msg) ==
    LET translated == IF Contains(msg, "weights_only") THEN CompatibilityGuidance ELSE msg
    IN  IF Len(translated) > TruncateLimit
        THEN SubSeq(translated, 1, TruncateKeep) \o "..."
        ELSE translated

\* A client sends a request.
RequestArrive(r) ==
    /\ rpc[r] = "idle"
    /\ \E p \in Paths : rpath' = [rpath EXCEPT ![r] = p]
    /\ rpc' = [rpc EXCEPT ![r] = "middleware"]
    /\ UNCHANGED <<shared, model_init_lock, registry, environ, workerVars,
                   running, rresp, robs>>

\* A variant of MiddlewareEnter whose exempt list names the two probes only.
MiddlewareEnter_ProbesOnly(r) ==
    /\ running = 0
    /\ rpc[r] = "middleware"
    /\ IF rpath[r] \in {"/health", "/ready"}
       THEN /\ rpc' = [rpc EXCEPT ![r] = "handler"]
            /\ UNCHANGED <<running, robs>>
       ELSE /\ rpc' = [rpc EXCEPT ![r] = "gate_acquire"]
            /\ running' = r
            /\ robs' = [robs EXCEPT ![r] = <<Phase>>]
    /\ UNCHANGED <<shared, model_init_lock, registry, environ, workerVars, rpath, rresp>>

\* main.py:137-141  the exempt paths go to call_next, which awaits; the
\* others go on to the with statement without leaving the event loop.
MiddlewareEnter(r) ==
    /\ running = 0
    /\ rpc[r] = "middleware"
    /\ IF rpath[r] \in ExemptPaths
       THEN /\ rpc' = [rpc EXCEPT ![r] = "handler"]
            /\ UNCHANGED <<running, robs>>
       ELSE /\ rpc' = [rpc EXCEPT ![r] = "gate_acquire"]
            /\ running' = r
            /\ robs' = [robs EXCEPT ![r] = <<Phase>>]
    /\ UNCHANGED <<shared, model_init_lock, registry, environ, workerVars, rpath, rresp>>

\* A variant of GateAcquire that goes on to read without the lock.
GateAcquire_Unlocked(r) ==
    /\ running = r
    /\ rpc[r] = "gate_acquire"
    /\ rpc' = [rpc EXCEPT ![r] = "gate_initialized"]
    /\ UNCHANGED <<shared, model_init_lock, registry, environ, workerVars,
                   running, rpath, rresp, robs>>

\* main.py:141  with model_init_lock: a blocking acquire on the event-loop thread
GateAcquire(r) ==
    /\ running = r
    /\ rpc[r] = "gate_acquire"
    /\ model_init_lock = Free
    /\ model_init_lock' = HeldByLoop
    /\ rpc' = [rpc EXCEPT ![r] = "gate_initialized"]
    /\ UNCHANGED <<shared, registry, environ, workerVars, running, rpath, rresp, robs>>

\* A variant of GateReadInitialized that does not test the flag.
GateReadInitialized_Skipped(r) ==
    /\ running = r
    /\ rpc[r] = "gate_initialized"
    /\ rpc' = [rpc EXCEPT ![r] = "gate_registry"]
    /\ UNCHANGED <<shared, model_init_lock, registry, environ, workerVars,
                   running, rpath, rresp, robs>>

\* main.py:142
GateReadInitialized(r) ==
    /\ running = r
    /\ rpc[r] = "gate_initialized"
    /\ rpc' = [rpc EXCEPT ![r] = IF ~initialized THEN "gate_error" ELSE "gate_registry"]
    /\ UNCHANGED <<shared, model_init_lock, registry, environ, workerVars,
                   running, rpath, rresp, robs>>

\* A variant of GateReadError that clears the error once it has reported it.
GateReadError_ClearsError(r) ==
    /\ running = r
    /\ rpc[r] = "gate_error"
    /\ rresp' = [rresp EXCEPT ![r] =
                    IF Truthy(initialization_error)
                    THEN Response(503, "", "Service unavailable: "
                                            \o FormatError(initialization_error[1]))
                    ELSE Response(503, "", "Service is still initializing")]
    /\ initialization_error' = None
    /\ model_init_lock' = Free
    /\ running' = 0
    /\ rpc' = [rpc EXCEPT ![r] = "done"]
    /\ UNCHANGED <<MODELS_LOADED, initialized, registry, environ, workerVars, rpath, robs>>

\* main.py:143-161  the HTTPException leaves the with block and the coroutine
GateReadError(r) ==
    /\ running = r
    /\ rpc[r] = "gate_error"
    /\ rresp' = [rresp EXCEPT ![r] =
                    IF Truthy(initialization_error)
                    THEN Response(503, "", "Service unavailable: "
                                            \o FormatError(initialization_error[1]))
                    ELSE Response(503, "", "Service is still initializing")]
    /\ model_init_lock' = Free
    /\ running' = 0
    /\ rpc' = [rpc EXCEPT ![r] = "done"]
    /\ UNCHANGED <<shared, registry, environ, workerVars, rpath, robs>>

\* main.py:167-171
GateCheckRegistry(r) ==
    /\ running = r
    /\ rpc[r] = "gate_registry"
    /\ rpc' = [rpc EXCEPT ![r] = IF registry.models = 0 \/ registry.voices = 0
                                 THEN "gate_incomplete" ELSE "gate_pass"]
    /\ UNCHANGED <<shared, model_init_lock, registry, environ, workerVars,
                   running, rpath, rresp, robs>>

\* main.py:172-176
GateRejectIncomplete(r) ==
    /\ running = r
    /\ rpc[r] = "gate_incomplete"
    /\ rresp' = [rresp EXCEPT ![r] =
                    Response(503, "", "Model initialization incomplete - service not ready")]
    /\ model_init_lock' = Free
    /\ running' = 0
    /\ rpc' = [rpc EXCEPT ![r] = "done"]
    /\ UNCHANGED <<shared, registry, environ, workerVars, rpath, robs>>

\* main.py:179-189  the end of the with block, then await call_next(request)
GatePass(r) ==
    /\ running = r
    /\ rpc[r] = "gate_pass"
    /\ model_init_lock' = Free
    /\ running' = 0
    /\ rpc' = [rpc EXCEPT ![r] = "handler"]
    /\ UNCHANGED <<shared, registry, environ, workerVars, rpath, rresp, robs>>

-----------------------------------------------------------------------------
\* health_check (main.py:102-109).

\* A variant of HealthReadError that answers an error as readiness_check does.
HealthReadError_Unavailable(r) ==
    /\ running = 0
    /\ rpc[r] = "handler"
    /\ rpath[r] = "/health"
    /\ IF Truthy(initialization_error)
       THEN /\ rresp' = [rresp EXCEPT ![r] = Response(503, "error", initialization_error[1])]
            /\ rpc' = [rpc EXCEPT ![r] = "done"]
            /\ UNCHANGED running
       ELSE /\ rpc' = [rpc EXCEPT ![r] = "health_initialized"]
            /\ running' = r
            /\ UNCHANGED rresp
    /\ UNCHANGED <<shared, model_init_lock, registry, environ, workerVars, rpath, robs>>

\* main.py:105-106
HealthReadError(r) ==
    /\ running = 0
    /\ rpc[r] = "handler"
    /\ rpath[r] = "/health"
    /\ IF Truthy(initialization_error)
       THEN /\ rresp' = [rresp EXCEPT ![r] = Response(200, "error", initialization_error[1])]
            /\ rpc' = [rpc EXCEPT ![r] = "done"]
            /\ UNCHANGED running
       ELSE /\ rpc' = [rpc EXCEPT ![r] = "health_initialized"]
            /\ running' = r
            /\ UNCHANGED rresp
    /\ UNCHANGED <<shared, model_init_lock, registry, environ, workerVars, rpath, robs>>

\* main.py:107-109
HealthReadInitialized(r) ==
    /\ running = r
    /\ rpc[r] = "health_initialized"
    /\ rresp' = [rresp EXCEPT ![r] =
                    IF ~initialized
                    THEN Response(200, "initializing", "")
                    ELSE Response(200, "healthy", "")]
    /\ rpc' = [rpc EXCEPT ![r] = "done"]
    /\ running' = 0
    /\ UNCHANGED <<shared, model_init_lock, registry, environ, workerVars, rpath, robs>>

-----------------------------------------------------------------------------
\* readiness_check (main.py:111-120).

\* main.py:114-116
ReadyReadError(r) ==
    /\ running = 0
    /\ rpc[r] = "handler"
    /\ rpath[r] = "/ready"
    /\ robs' = [robs EXCEPT ![r] = <<Phase>>]
    /\ IF Truthy(initialization_error)
       THEN /\ rresp' = [rresp EXCEPT ![r] = Response(503, "error", initialization_error[1])]
            /\ rpc' = [rpc EXCEPT ![r] = "done"]
            /\ UNCHANGED running
       ELSE /\ rpc' = [rpc EXCEPT ![r] = "ready_initialized"]
            /\ running' = r
            /\ UNCHANGED rresp
    /\ UNCHANGED <<shared, model_init_lock, registry, environ, workerVars, rpath>>

\* main.py:117-120
ReadyReadInitialized(r) ==
    /\ running = r
    /\ rpc[r] = "ready_initialized"
    /\ robs' = [robs EXCEPT ![r] = Append(@, Phase)]
    /\ rresp' = [rresp EXCEPT ![r] =
                    IF ~initialized
                    THEN Response(503, "loading", "Models are still loading")
                    ELSE Response(200, "ready", "Models loaded and ready")]
    /\ rpc' = [rpc EXCEPT ![r] = "done"]
    /\ running' = 0
    /\ UNCHANGED <<shared, model_init_lock, registry, environ, workerVars, rpath>>

-----------------------------------------------------------------------------
\* The other handlers.

\* The documentation pages FastAPI serves.
DocsHandler(r) ==
    /\ running = 0
    /\ rpc[r] = "handler"
    /\ rpath[r] \in DocPaths
    /\ rresp' = [rresp EXCEPT ![r] = Response(200, "", "docs")]
    /\ rpc' = [rpc EXCEPT ![r] = "done"]
    /\ UNCHANGED <<shared, model_init_lock, registry, environ, workerVars,
                   running, rpath, robs>>

\* main.py:129-131
root(r) ==
    /\ running = 0
    /\ rpc[r] = "handler"
    /\ rpath[r] = "/"
    /\ rresp' = [rresp EXCEPT ![r] =
                    Response(200, "", "Kokoro TTS API is running. Visit /docs for API documentation.")]
    /\ rpc' = [rpc EXCEPT ![r] = "done"]
    /\ UNCHANGED <<shared, model_init_lock, registry, environ, workerVars,
                   running, rpath, robs>>

\* main.py:123-127  a routed handler; the routers own the registry and may
\* leave it as it is or drop a collection.
RouterHandler(r) ==
    /\ running = 0
    /\ rpc[r] = "handler"
    /\ rpath[r] = "/tts"
    /\ \E reg \in {registry, [registry EXCEPT !.voices = 0], [registry EXCEPT !.models = 0]} :
          registry' = reg
    /\ rresp' = [rresp EXCEPT ![r] = Response(200, "", "handled")]
    /\ rpc' = [rpc EXCEPT ![r] = "done"]
    /\ UNCHANGED <<shared, model_init_lock, environ, workerVars, running, rpath, robs>>

\* The client has its response; the connection slot is free again.
RequestComplete(r) ==
    /\ rpc[r] = "done"
    /\ rpc' = [rpc EXCEPT ![r] = "idle"]
    /\ rpath' = [rpath EXCEPT ![r] = ""]
    /\ rresp' = [rresp EXCEPT ![r] = NoResponse]
    /\ robs' = [robs EXCEPT ![r] = <<>>]
    /\ UNCHANGED <<shared, model_init_lock, registry, environ, workerVars, running>>

Request(r) ==
    \/ RequestArrive(r)
    \/ MiddlewareEnter(r)
    \/ GateAcquire(r)
    \/ GateReadInitialized(r)
    \/ GateReadError(r)
    \/ GateCheckRegistry(r)
    \/ GateRejectIncomplete(r)
    \/ GatePass(r)
    \/ HealthReadError(r)
    \/ HealthReadInitialized(r)
    \/ ReadyReadError(r)
    \/ ReadyReadInitialized(r)
    \/ DocsHandler(r)
    \/ root(r)
    \/ RouterHandler(r)
    \/ RequestComplete(r)

-----------------------------------------------------------------------------
\* The process as the server runs it: one startup.
Next ==
    \/ LifespanStartup
    \/ \E w \in Workers : Worker(w)
    \/ \E r \in Requests : Request(r)

Spec == Init /\ [][Next]_vars

\* The steps of a gate check from the with statement to its end.
GateStep(r) ==
    \/ GateAcquire(r)
    \/ GateReadInitialized(r)
    \/ GateReadError(r)
    \/ GateCheckRegistry(r)
    \/ GateRejectIncomplete(r)
    \/ GatePass(r)

\* Scheduling: a thread that can run does run (the loader call returns or
\* raises, the event-loop thread goes on through a gate check), and a worker
\* that finds the lock free again and again gets it.  Nothing obliges
\* clients to send requests or the loop to start one.
Fairness ==
    /\ \A w \in Workers : WF_vars(Worker(w)) /\ SF_vars(WorkerAcquire(w))
    /\ \A r \in Requests : WF_vars(GateStep(r))

SpecFair == Init /\ [][Next]_vars /\ Fairness

\* The worker alone, started once in any environment.
NextDetect ==
    \/ LifespanStartup
    \/ \E w \in Workers : Worker(w)

SpecDetect == InitAnyEnvironment /\ [][NextDetect]_vars

\* The startup hook invoked repeatedly, with one client.
NextRepeated ==
    \/ startup_event
    \/ \E w \in Workers : Worker(w)
    \/ Request(1)

SpecRepeated == Init /\ [][NextRepeated]_vars

-----------------------------------------------------------------------------
\* Properties.

\* The threads that have entered initialize_models.
LoadExecutions == {w \in Workers : wpc[w] \notin {"unstarted", "acquire", "detect"}}

\* The threads that have written a terminal state (initialized = True, or
\* initialization_error = str(e)).
TerminalWrites ==
    {w \in Workers : wpc[w] \in {"clear_error", "done_ok", "reset_flags", "done_failed"}}

\* C1: however often the startup hook is invoked, at most one thread ever
\* executes the load and at most one terminal transition is ever written.
C1_StartIdempotence ==
    started >= 1 => Cardinality(LoadExecutions) <= 1 /\ Cardinality(TerminalWrites) <= 1

PhaseOrder(p, q) ==
    \/ q = p
    \/ p = "Uninitialized" /\ q = "Loading"
    \/ p = "Loading" /\ q \in {"Ready", "Failed"}

\* C2: the phase only moves Uninitialized -> Loading -> Ready or Failed; it
\* never regresses and never moves between Ready and Failed.
C2_PhaseMonotonic == [][PhaseOrder(Phase, Phase')]_vars

\* A /ready request has been answered 200 after the phase went through
\* Loading to Ready.
C2_Witness ==
    /\ Phase = "Ready"
    /\ \E w \in Workers : wpc[w] = "done_ok"
    /\ \E r \in Requests : rpc[r] = "done" /\ rpath[r] = "/ready" /\ rresp[r].code = 200

\* The event-loop thread is blocked in the gate's acquire while thread w is
\* inside initialize_models with the lock.
LoopBlockedOnLoad ==
    \E r \in Requests, w \in Workers :
        /\ running = r
        /\ rpc[r] = "gate_acquire"
        /\ model_init_lock = HeldByWorker(w)
        /\ wpc[w] = "load"

\* C3: no gate check ever waits for model_init_lock while the worker holds it
\* inside initialize_models.
C3_GateNeverWaitsOnLoad ==
    \A r \in Requests, w \in Workers :
        ~(rpc[r] = "gate_acquire" /\ model_init_lock = HeldByWorker(w) /\ wpc[w] = "load")

\* C4: a pending /health or /ready request never has to wait for the worker to
\* finish the load: the event loop that must run it is never blocked on the
\* lock the loading worker holds.
C4_ProbeNeverBlocked ==
    \A r \in Requests :
        (rpath[r] \in {"/health", "/ready"} /\ rpc[r] \in {"middleware", "handler"})
            => ~LoopBlockedOnLoad

\* C5: a gated request that reaches the gate while the phase is Loading is
\* answered 503 "Service is still initializing".
C5_LoadingRejected ==
    \A r \in Requests :
        (rpath[r] \notin ExemptPaths /\ rpc[r] \in {"handler", "done"}
            /\ robs[r] = <<"Loading">>)
        => (rpc[r] = "done" /\ rresp[r] = Response(503, "", "Service is still initializing"))

\* C6: the gate lets a request pass only when the phase is Ready and models
\* and voices are non-empty; it answers "Model initialization incomplete"
\* exactly when the phase is Ready and one of them is empty; a gated request
\* is with its handler only in phase Ready.
C6_AdmissionSafety ==
    \A r \in Requests :
        /\ rpc[r] = "gate_pass"
              => Phase = "Ready" /\ registry.models > 0 /\ registry.voices > 0
        /\ rpc[r] = "gate_incomplete"
              => Phase = "Ready" /\ (registry.models = 0 \/ registry.voices = 0)
        /\ (rpath[r] \notin ExemptPaths /\ rpc[r] = "handler") => Phase = "Ready"
        /\ (rpath[r] \notin ExemptPaths /\ rpc[r] = "done" /\ rresp[r].code = 200)
              => Phase = "Ready"

\* Scenario E has happened: the phase is Ready, a collection has been dropped
\* and the gate has rejected a request for it.
C6_Witness ==
    \E r \in Requests :
        /\ rpc[r] = "done"
        /\ rpath[r] = "/tts"
        /\ rresp[r] = Response(503, "", "Model initialization incomplete - service not ready")

\* C7: once the state holds the loader's exception (phase Failed), every
\* /health call that begins answers status "error" with the message, every
\* /ready call that begins answers 503 status "error", every gate check ends in
\* a 503, and the phase stays Failed.
C7_FailureTerminal ==
    [][Phase = "Failed" =>
        /\ Phase' = "Failed"
        /\ \A r \in Requests :
            /\ (rpath[r] = "/health" /\ rpc[r] = "handler" /\ rpc'[r] # "handler")
                  => /\ rpc'[r] = "done"
                     /\ rresp'[r] = Response(200, "error", initialization_error[1])
            /\ (rpath[r] = "/ready" /\ rpc[r] = "handler" /\ rpc'[r] # "handler")
                  => /\ rpc'[r] = "done"
                     /\ rresp'[r] = Response(503, "error", initialization_error[1])
            /\ (rpath[r] \notin ExemptPaths /\ rpc[r] = "gate_initialized")
                  => rpc'[r] \in {"gate_initialized", "gate_error"}
            /\ (rpath[r] \notin ExemptPaths /\ rpc[r] = "gate_error" /\ rpc'[r] = "done")
                  => rresp'[r].code = 503
    ]_vars

\* C8: the state holds an error message exactly when a worker has taken the
\* failure transition, and never together with initialized = True; so a probe
\* that has read "no error" and then reads initialized = True, and a gate that
\* has read initialized = False and then reads a message, both hold a pair
\* that is the state's pair.
C8_StateConsistency ==
    /\ (initialization_error # None)
          <=> (\E w \in Workers : wpc[w] \in {"reset_flags", "done_failed"})
    /\ ~(initialized /\ initialization_error # None)
    /\ initialized <=> (\E w \in Workers : wpc[w] \in {"clear_error", "done_ok"})

\* A probe is between its two reads while the worker is between its two
\* failure writes.
C8_Witness ==
    /\ \E w \in Workers : wpc[w] = "reset_flags"
    /\ \E r \in Requests : rpc[r] \in {"health_initialized", "ready_initialized"}

\* What /ready is to answer in a phase.
ReadyAnswer(phase) ==
    CASE phase = "Ready" -> Response(200, "ready", "Models loaded and ready")
      [] phase = "Failed" -> Response(503, "error", initialization_error[1])
      [] OTHER -> Response(503, "loading", "Models are still loading")

\* C9: the answer of /ready is the one of the phase at an instant of the call
\* (one of the handler's reads): 200 "ready" for Ready, 503 "error" with the
\* message for Failed, 503 "loading" for Uninitialized and Loading.
C9_ReadinessExact ==
    \A r \in Requests :
        (rpath[r] = "/ready" /\ rpc[r] = "done")
            => \E i \in 1..Len(robs[r]) : rresp[r] = ReadyAnswer(robs[r][i])

\* C10: every answer of /health has status code 200.
C10_HealthAlways200 ==
    \A r \in Requests : (rpath[r] = "/health" /\ rpc[r] = "done") => rresp[r].code = 200

\* /health has answered in each phase a probe can meet.
C10_Witness ==
    /\ Phase = "Failed"
    /\ \E r \in Requests :
          rpath[r] = "/health" /\ rpc[r] = "done" /\ rresp[r].status = "error"

\* The positions inside the gate's with block, and waiting for it.
GatePositions ==
    {"gate_acquire", "gate_initialized", "gate_error", "gate_registry",
     "gate_incomplete", "gate_pass"}

\* C11: a request to / is answered 200 with the static message in every
\* phase, never with a 503 of the gate.
C11_RootExempt ==
    \A r \in Requests :
        (rpath[r] = "/" /\ rpc[r] = "done") =>
            rresp[r] = Response(200, "",
                "Kokoro TTS API is running. Visit /docs for API documentation.")

\* The fixed exempt set of the claim.
C12_ExemptSet == {"/health", "/ready", "/docs", "/openapi.json", "/redoc"}

\* C12: a request to an exempt path goes from the middleware straight to its
\* handler in every phase: it is never at a position of the gate, the lock is
\* never taken for it, the gate records no reading of the state for it and
\* its answer is never one of the gate's rejections.
C12_ExemptBypass ==
    \A r \in Requests :
        rpath[r] \in C12_ExemptSet =>
            /\ rpc[r] \notin GatePositions
            /\ running = r => model_init_lock # HeldByLoop
            /\ rpc[r] \in {"middleware", "handler"} => robs[r] = <<>>
            /\ rpc[r] = "done" => rresp[r].status # "" \/ rresp[r].code = 200

\* Each of the exempt paths is with its handler, past the middleware, while
\* the worker holds the lock inside the load.
C12_Witness ==
    /\ \E w \in Workers : wpc[w] = "load" /\ model_init_lock = HeldByWorker(w)
    /\ \E r1, r2 \in Requests :
          /\ rpath[r1] \in DocPaths /\ rpc[r1] = "done"
          /\ rpath[r2] = "/health" /\ rpc[r2] = "health_initialized"

\* The validation message with the two booleans rendered as t and f.
C13_Message(reg, t, f) ==
    "Critical components missing after initialization: models="
        \o (IF reg.models > 0 THEN t ELSE f)
        \o ", pipelines=" \o (IF reg.pipelines > 0 THEN t ELSE f)
        \o ", voices=" \o (IF reg.voices > 0 THEN t ELSE f)

\* A step of the validation and of the publication of its failure, with the
\* booleans rendered as t and f: the worker leaves the validation of a
\* registry with an empty collection only by raising the message, and it
\* leaves the except clause only by storing the message it caught, which
\* makes the phase Failed; it sets the flags of Ready only for a registry
\* without an empty collection.
C13_Step(t, f) ==
    \A w \in Workers :
        /\ (/\ wpc[w] = "validate"
            /\ wpc'[w] # "validate"
            /\ (registry.models = 0 \/ registry.pipelines = 0 \/ registry.voices = 0))
              => /\ wpc'[w] = "except"
                 /\ wexc'[w] = C13_Message(registry, t, f)
        /\ (wpc[w] = "except" /\ wpc'[w] # "except")
              => /\ initialization_error' = Some(wexc[w])
                 /\ Phase' = "Failed"
        /\ wpc'[w] \in {"set_loaded", "set_initialized", "clear_error"}
              => registry'.models > 0 /\ registry'.pipelines > 0 /\ registry'.voices > 0

\* C13 as stated: the loader returns with an empty collection => the terminal
\* phase is Failed with the message "... models=<bool>, pipelines=<bool>,
\* voices=<bool>", the booleans rendered true / false.
C13_ValidationLowercase == [][C13_Step("true", "false")]_vars

\* C13 as amended: the same with the booleans rendered True / False; for an
\* empty voice collection only, the stored message is
\* "... models=True, pipelines=True, voices=False".
C13_ValidationFailure ==
    [][/\ C13_Step("True", "False")
       /\ \A w \in Workers :
            (wpc[w] = "validate" /\ wpc'[w] # "validate"
                /\ registry = [models |-> 1, pipelines |-> 1, voices |-> 0])
              => wexc'[w] =
                   "Critical components missing after initialization: models=True, pipelines=True, voices=False"
    ]_vars

\* Scenario C has run to its end: the loader returned an empty voice
\* collection and the worker has published the failure.
C13_Witness ==
    /\ \E w \in Workers : wpc[w] = "done_failed"
    /\ registry = [models |-> 1, pipelines |-> 1, voices |-> 0]
    /\ Phase = "Failed"
    /\ initialization_error =
          Some("Critical components missing after initialization: models=True, pipelines=True, voices=False")

\* C14: the three globals change only in a step of a worker thread; no step of
\* a request (middleware, gate, /health, /ready, the other handlers) changes
\* them.
C14_ReadersReadOnly ==
    [][/\ (shared' # shared) => (wpc' # wpc /\ requestVars' = requestVars)
       /\ (requestVars' # requestVars) => shared' = shared
    ]_vars

\* The gate has reported a stored error and /health and /ready have answered
\* after it, and the error is still stored.
C14_Witness ==
    /\ initialization_error = Some("CUDA out of memory")
    /\ \E r1, r2 \in Requests :
          /\ rpath[r1] = "/tts" /\ rpc[r1] = "done"
          /\ rresp[r1] = Response(503, "", "Service unavailable: CUDA out of memory")
          /\ rpath[r2] \in {"/health", "/ready"} /\ rpc[r2] = "done"
          /\ rresp[r2].status = "error"

\* C15: once initialization has been started the phase eventually is Ready
\* or Failed, whatever requests are interleaved.
C15_EventuallyTerminal == (started > 0) ~> (Phase \in {"Ready", "Failed"})

\* The worker has published a terminal state after gated and probe requests
\* were answered during the load.
C15_Witness ==
    /\ Phase \in {"Ready", "Failed"}
    /\ \E w \in Workers : wpc[w] \in {"done_ok", "done_failed"}
    /\ \E r1, r2 \in Requests :
          /\ rpath[r1] = "/tts" /\ rpc[r1] = "done" /\ robs[r1] = <<"Loading">>
          /\ rpath[r2] = "/health" /\ rpc[r2] = "done" /\ rresp[r2].status = "initializing"

\* Request r has the gate's report of a stored error as its answer.
ErrorReported(r) ==
    /\ rpc[r] = "done"
    /\ rpath[r] \notin ExemptPaths
    /\ rresp[r].code = 503
    /\ rresp[r].detail \notin {"Service is still initializing",
                                "Model initialization incomplete - service not ready"}

\* The text after the first n characters of s.
C16_After(s, n) == SubSeq(s, n + 1, Len(s))

HasMarker(s) == \E i \in 1..(Len(s) - 11) : SubSeq(s, i, i + 11) = "weights_only"

\* C16 as stated: the message of the gate's 503 for a stored error never
\* exceeds 200 characters; for an error longer than 200 characters without
\* the marker it has exactly 200 and ends in "...".
C16_TruncationOfDetail ==
    \A r \in Requests :
        ErrorReported(r) =>
            LET e == initialization_error[1]
                d == rresp[r].detail
            IN  /\ Len(d) <= 200
                /\ (Len(e) > 200 /\ ~HasMarker(e))
                      => Len(d) = 200 /\ SubSeq(d, Len(d) - 2, Len(d)) = "..."

\* C16 as amended: the message of the gate's 503 is "Service unavailable: "
\* followed by a text of at most 200 characters; for an error longer than 200
\* characters without the marker that text is the first 197 characters of the
\* error followed by "...", 200 characters; an error of at most 200
\* characters without the marker is reported whole.
C16_TruncationLaw ==
    \A r \in Requests :
        ErrorReported(r) =>
            LET e == initialization_error[1]
                d == rresp[r].detail
                m == C16_After(d, 21)
            IN  /\ Phase = "Failed"
                /\ SubSeq(d, 1, 21) = "Service unavailable: "
                /\ Len(m) <= 200
                /\ (Len(e) > 200 /\ ~HasMarker(e))
                      => /\ Len(m) = 200
                         /\ m = SubSeq(e, 1, 197) \o "..."
                /\ (Len(e) <= 200 /\ ~HasMarker(e)) => m = e

\* The gate has reported an error of 201 characters.
C16_Witness ==
    \E r \in Requests :
        /\ ErrorReported(r)
        /\ initialization_error = Some(LongMessage)
        /\ Len(rresp[r].detail) = 221

\* C17: for a stored error that contains "weights_only" the gate's 503 carries
\* the fixed guidance text, whatever the rest and the length of the error,
\* while the state keeps the raw message the worker caught and /health and
\* /ready report the raw message.
C17_CompatibilitySubstitution ==
    /\ \A w \in Workers :
          wpc[w] = "reset_flags" => initialization_error = Some(wexc[w])
    /\ (initialization_error # None /\ HasMarker(initialization_error[1])) =>
          /\ initialization_error[1] \in LoaderMessages
          /\ \A r \in Requests :
                /\ ErrorReported(r) =>
                      rresp[r].detail =
                          "Service unavailable: PyTorch 2.6 compatibility issue with model loading. The model was created with an older PyTorch version. Please restart the application to retry with fallback loading options."
                /\ (rpath[r] \in {"/health", "/ready"} /\ rpc[r] = "done"
                        /\ rresp[r].status = "error")
                      => rresp[r].detail = initialization_error[1]

\* The gate has answered with the guidance for the long error whose marker
\* lies after the 200th character, and a probe has reported that error raw.
C17_Witness ==
    /\ initialization_error = Some(WeightsOnlyMessage)
    /\ \E r1, r2 \in Requests :
          /\ ErrorReported(r1)
          /\ rpath[r2] \in {"/health", "/ready"} /\ rpc[r2] = "done"
          /\ rresp[r2].detail = WeightsOnlyMessage

\* The container indicator equals "true" whatever the case of its letters.
C18_IsTrue(s) == s \in {"true", "True", "TRUE"}

\* C18: once the worker has computed it, force_online is true exactly when
\* (CONTAINER_ENV is "true" in any case or K_SERVICE is non-empty) and the
\* model directory does not exist; no indicators and no directory give false,
\* indicator "true" and no directory give true.
C18_DetectorRule ==
    \A w \in Workers :
        wpc[w] \notin {"unstarted", "acquire", "detect"} =>
            /\ force_online[w] <=>
                  /\ C18_IsTrue(environ.CONTAINER_ENV) \/ environ.K_SERVICE # ""
                  /\ ~environ.model_dir
            /\ environ = [CONTAINER_ENV |-> "", K_SERVICE |-> "", model_dir |-> FALSE]
                  => ~force_online[w]
            /\ environ = [CONTAINER_ENV |-> "true", K_SERVICE |-> "", model_dir |-> FALSE]
                  => force_online[w]

\* The worker is in the load with force_online set for CONTAINER_ENV=TRUE, no
\* service name and no model directory.
C18_Witness ==
    \E w \in Workers :
        /\ wpc[w] = "load"
        /\ environ = [CONTAINER_ENV |-> "TRUE", K_SERVICE |-> "", model_dir |-> FALSE]
        /\ force_online[w]

\* C19: a gate check that has reached the with statement eventually ends, with
\* the request passed to its handler or answered 503; and a worker waiting for
\* the lock eventually has it.
C19_GateEventuallyAnswers ==
    /\ \A r \in Requests :
          (rpc[r] = "gate_acquire")
              ~> (rpc[r] = "handler" \/ (rpc[r] = "done" /\ rresp[r].code = 503))
    /\ \A w \in Workers : (wpc[w] = "acquire") ~> (wpc[w] # "acquire")

\* A request that reached the gate during the load has been passed to its
\* handler and answered.
C19_Witness ==
    \E r \in Requests :
        /\ rpath[r] = "/tts"
        /\ robs[r] = <<"Loading">>
        /\ rpc[r] = "done"
        /\ rresp[r].code = 200

\* The positions of a gate check inside its with block.
C20_GateCritical ==
    {"gate_initialized", "gate_error", "gate_registry", "gate_incomplete", "gate_pass"}

\* The positions of the worker from the load to the success write.
C20_WorkerCritical ==
    {"detect", "load", "validate", "set_loaded", "set_initialized", "clear_error"}

\* C20: the worker holds the lock from before the load to the success write
\* and a gate check holds it while it reads, so the two are never in these
\* sections together; the worker does not hold it in the except clause, and a
\* gate check that reads initialization_error there before the worker has
\* stored the error answers "Service is still initializing".
C20_LockProtectedPublication ==
    /\ [](/\ \A w \in Workers :
               /\ wpc[w] \in C20_WorkerCritical => model_init_lock = HeldByWorker(w)
               /\ wpc[w] \in {"except", "reset_flags", "done_failed", "done_ok"}
                     => model_init_lock # HeldByWorker(w)
          /\ \A r \in Requests :
               rpc[r] \in C20_GateCritical => model_init_lock = HeldByLoop
          /\ \A r \in Requests, w \in Workers :
               ~(rpc[r] \in C20_GateCritical /\ wpc[w] \in C20_WorkerCritical))
    /\ [][\A r \in Requests :
            (/\ rpc[r] = "gate_error"
             /\ rpc'[r] = "done"
             /\ \E w \in Workers : wpc[w] = "except"
             /\ initialization_error = None)
              => rresp'[r] = Response(503, "", "Service is still initializing")
       ]_vars

\* A gate check is inside its with block after the loader's exception and
\* before the worker has stored the error.
C20_Witness ==
    \E r \in Requests, w \in Workers :
        /\ wpc[w] = "except"
        /\ wexc[w] = "CUDA out of memory"
        /\ initialization_error = None
        /\ rpc[r] = "gate_error"
        /\ model_init_lock = HeldByLoop

====
